---- MODULE Spec2Model ----
(***************************************************************************)
(* State-machine model of packages/mainmenu/src/menus.ts:                  *)
(*   - JupyterLabMenu.addGroup, the rank-grouped insertion into a menu;    *)
(*   - KernelMenu, its user registry and the three kernel commands.        *)
(* Array indices are 0-based as in the source; a sequence element at       *)
(* source index i is s[i + 1].                                             *)
(***************************************************************************)
EXTENDS Integers, Sequences, FiniteSets, TLC

VARIABLES
    items,          \* Menu._items: the flat item list of the menu
    groups,         \* JupyterLabMenu._groups
    users,          \* KernelMenu._users
    currentWidget,  \* app.shell.currentWidget
    lastExec,       \* outcome of the command execution just performed, or NoExec
    calls           \* history: the addGroup calls made so far, in call order,
                    \* each with the group index and insert index it computed

vars == <<items, groups, users, currentWidget, lastExec, calls>>

(***************************************************************************)
(* Bounds of the model.                                                    *)
(***************************************************************************)
MaxCalls == 3
MaxItems == 4
MaxUsers == 2
\* addGroup and addUser calls together, where both are made on one menu
MaxContributions == 2

(***************************************************************************)
(* Values.                                                                 *)
(***************************************************************************)
\* The default rank of a group added without a rank.
DefaultRank == 100

\* The explicit ranks the callers of the model pass.
Ranks == {10, 200}

\* An optional rank argument: <<>> is an omitted rank, <<r>> the rank r.
RankArgs == {<<>>} \cup {<<r>> : r \in Ranks}

\* The separator item descriptor.
Separator == [type |-> "separator", group |-> 0, idx |-> 0]

\* The k-th item descriptor a caller passes in the c-th addGroup call.
Item(c, k) == [type |-> "command", group |-> c, idx |-> k]

\* The item list of n descriptors passed in the c-th addGroup call.
ItemList(c, n) == [k \in 1..n |-> Item(c, k)]

\* The three kernel command items.
InterruptItem == [type |-> "command", group |-> 0, idx |-> 1]
RestartItem == [type |-> "command", group |-> 0, idx |-> 2]
ChangeItem == [type |-> "command", group |-> 0, idx |-> 3]

\* The menu index at which plugin groups begin to be inserted.
startIndex == 0

Min(a, b) == IF a < b THEN a ELSE b
Max(a, b) == IF a > b THEN a ELSE b

(***************************************************************************)
(* Array helpers.                                                          *)
(***************************************************************************)
\* ArrayExt.insert / Menu.insertItem: insert at the index clamped to
\* [0, length].
InsertAt(s, index, v) ==
    LET i == Max(0, Min(index, Len(s)))
    IN  SubSeq(s, 1, i) \o <<v>> \o SubSeq(s, i + 1, Len(s))

\* insertItem overwriting the item at the index instead of shifting it.
insertItem_Overwrite(menuItems, index, item) ==
    LET i == Max(0, Min(index, Len(menuItems)))
    IN  IF i < Len(menuItems)
        THEN [menuItems EXCEPT ![i + 1] = item]
        ELSE Append(menuItems, item)

insertItem(menuItems, index, item) == InsertAt(menuItems, index, item)

\* Private.itemCmp
itemCmp(first, second) == first.rank - second.rank

\* ArrayExt.upperBound: binary search for the first index whose element
\* compares greater than value.
RECURSIVE upperBoundLoop(_, _, _, _)
upperBoundLoop(array, value, begin, span) ==
    IF span > 0
    THEN LET half == span \div 2
             middle == begin + half
         IN  IF itemCmp(array[middle + 1], value) > 0
             THEN upperBoundLoop(array, value, begin, half)
             ELSE upperBoundLoop(array, value, middle + 1, span - (half + 1))
    ELSE begin

\* ArrayExt.lowerBound in the place of upperBound: the first index whose
\* element does not compare less than value.
RECURSIVE lowerBoundLoop(_, _, _, _)
lowerBoundLoop(array, value, begin, span) ==
    IF span > 0
    THEN LET half == span \div 2
             middle == begin + half
         IN  IF itemCmp(array[middle + 1], value) < 0
             THEN lowerBoundLoop(array, value, middle + 1, span - (half + 1))
             ELSE lowerBoundLoop(array, value, begin, half)
    ELSE begin

upperBound_Lower(array, value) ==
    IF Len(array) = 0 THEN 0 ELSE lowerBoundLoop(array, value, 0, Len(array))

upperBound(array, value) ==
    IF Len(array) = 0 THEN 0 ELSE upperBoundLoop(array, value, 0, Len(array))

(***************************************************************************)
(* JupyterLabMenu.addGroup                                                 *)
(***************************************************************************)
\* rankGroup with rank 0 for an omitted rank.
RankGroup_DefaultZero(its, rankArg) ==
    [items |-> its, rank |-> IF rankArg = <<>> THEN 0 ELSE rankArg[1]]

\* const rankGroup = { items, rank: rank === undefined ? 100 : rank }
RankGroup(its, rankArg) ==
    [items |-> its, rank |-> IF rankArg = <<>> THEN DefaultRank ELSE rankArg[1]]

\* What one preceding group adds to the insert index; grps is the group
\* list after the insertion of the new group.
OffsetStep(grps, i) == Len(grps) + 1

\* The loop that determines the index of the menu at which to insert.
RECURSIVE InsertIndexLoop(_, _, _, _)
InsertIndexLoop(grps, i, groupIndex, insertIndex) ==
    IF i < groupIndex
    THEN InsertIndexLoop(grps, i + 1, groupIndex,
                         IF Len(grps) > 0
                         THEN insertIndex + OffsetStep(grps, i)
                         ELSE insertIndex)
    ELSE insertIndex

\* The insert index before the separator is inserted.
InsertIndex(grps, groupIndex) == InsertIndexLoop(grps, 0, groupIndex, startIndex)

\* A separator before every group, the first included.
NeedsSeparator_Always(insertIndex) == insertIndex >= 0

\* Whether addGroup inserts a separator at the insert index.
NeedsSeparator(insertIndex) == insertIndex > 0

\* The item loop without the increment of insertIndex.
RECURSIVE InsertItems_NoIncrement(_, _, _, _)
InsertItems_NoIncrement(menuItems, its, k, insertIndex) ==
    IF k > Len(its)
    THEN menuItems
    ELSE InsertItems_NoIncrement(InsertAt(menuItems, insertIndex, its[k]), its,
                                 k + 1, insertIndex)

\* for (let item of items) this.insertItem(insertIndex++, item)
RECURSIVE InsertItems(_, _, _, _)
InsertItems(menuItems, its, k, insertIndex) ==
    IF k > Len(its)
    THEN menuItems
    ELSE InsertItems(insertItem(menuItems, insertIndex, its[k]), its, k + 1,
                     insertIndex + 1)

\* The menu after addGroup(its, rankArg) on a menu with the flat item list
\* menuItems and group list menuGroups.
AddGroupResult(menuItems, menuGroups, its, rankArg) ==
    LET rankGroup == RankGroup(its, rankArg)
        groupIndex == upperBound(menuGroups, rankGroup)
        grps == InsertAt(menuGroups, groupIndex, rankGroup)
        insertIndex == InsertIndex(grps, groupIndex)
        withSep == IF NeedsSeparator(insertIndex)
                   THEN insertItem(menuItems, insertIndex, Separator)
                   ELSE menuItems
        next == IF NeedsSeparator(insertIndex) THEN insertIndex + 1 ELSE insertIndex
    IN  [items |-> InsertItems(withSep, its, 1, next),
         groups |-> grps,
         groupIndex |-> groupIndex,
         insertIndex |-> insertIndex]

\* The value of lastExec when the last operation was no command execution.
NoExec ==
    [cmd |-> "none", enabled |-> FALSE, outcome |-> "none", invoked |-> <<>>,
     result |-> "none"]

AddGroup(n, rankArg) ==
    /\ Len(calls) < MaxCalls
    /\ LET its == ItemList(Len(calls) + 1, n)
           r == AddGroupResult(items, groups, its, rankArg)
       IN  /\ items' = r.items
           /\ groups' = r.groups
           /\ calls' = Append(calls, [items |-> its, rankArg |-> rankArg,
                                      groupIndex |-> r.groupIndex,
                                      insertIndex |-> r.insertIndex])
    /\ lastExec' = NoExec
    /\ UNCHANGED <<users, currentWidget>>

(***************************************************************************)
(* Specification of a plain JupyterLabMenu.                                *)
(***************************************************************************)
Init ==
    /\ items = <<>>
    /\ groups = <<>>
    /\ users = <<>>
    /\ currentWidget = "null"
    /\ lastExec = NoExec
    /\ calls = <<>>

Next == \E n \in 0..MaxItems, rankArg \in RankArgs : AddGroup(n, rankArg)

Spec == Init /\ [][Next]_vars

(***************************************************************************)
(* KernelMenu                                                              *)
(***************************************************************************)
\* The widgets of the shell; "null" is the absence of a current widget.
Widgets == {"wX", "wY"}

\* A tracker is modelled by the set of widgets it has: tracker.has(w)
\* is w \in tracker.
Trackers == {{"wX"}, {"wY"}}

\* IKernelUser: a tracker and three optional delegates; a delegate field
\* is TRUE when the user supplies that function.
KernelUsers ==
    [tracker : Trackers, interruptKernel : BOOLEAN, restartKernel : BOOLEAN,
     changeKernel : BOOLEAN]

\* CommandIDs
Commands == {"kernel:interrupt", "kernel:restart", "kernel:change"}

\* The values a delegate may return.
DelegateReturns == {"r1", "r2"}

\* ArrayExt.findFirstValue(this._users, el => el.tracker.has(widget)):
\* <<>> is undefined, <<u>> the user found.
RECURSIVE findFirstValue(_, _, _)
findFirstValue(array, widget, i) ==
    IF i >= Len(array)
    THEN <<>>
    ELSE IF widget \in array[i + 1].tracker
         THEN <<array[i + 1]>>
         ELSE findFirstValue(array, widget, i + 1)

\* findFirstValue searching from the end of the array.
RECURSIVE findLastValue(_, _, _)
findLastValue(array, widget, i) ==
    IF i < 0
    THEN <<>>
    ELSE IF widget \in array[i + 1].tracker
         THEN <<array[i + 1]>>
         ELSE findLastValue(array, widget, i - 1)

\* _findUser returning the last registered user that owns the widget.
FindUser_LastMatch(widget) ==
    IF widget = "null" THEN <<>> ELSE findLastValue(users, widget, Len(users) - 1)

\* _findUser falling back on the first registered user.
FindUser_FallBackOnFirst(widget) ==
    IF widget = "null"
    THEN <<>>
    ELSE IF findFirstValue(users, widget, 0) # <<>>
         THEN findFirstValue(users, widget, 0)
         ELSE IF users = <<>> THEN <<>> ELSE <<users[1]>>

\* KernelMenu._findUser
FindUser(widget) ==
    IF widget = "null" THEN <<>> ELSE findFirstValue(users, widget, 0)

\* The delegate field the isEnabled of a command tests.
EnabledField(cmd) ==
    CASE cmd = "kernel:interrupt" -> "interruptKernel"
      [] cmd = "kernel:restart" -> "restartKernel"
      [] cmd = "kernel:change" -> "changeKernel"

\* execute of every command calling the interrupt delegate.
ExecField_AlwaysInterrupt(cmd) == "interruptKernel"

\* The delegate field the execute of a command calls.
ExecField(cmd) ==
    CASE cmd = "kernel:interrupt" -> "interruptKernel"
      [] cmd = "kernel:restart" -> "restartKernel"
      [] cmd = "kernel:change" -> "changeKernel"

\* isEnabled without the test of the delegate: !!user
isEnabled_UserOnly(cmd) == FindUser(currentWidget) # <<>>

\* isEnabled: !!user && !!user.<delegate>
isEnabled(cmd) ==
    LET user == FindUser(currentWidget)
    IN  user # <<>> /\ user[1][EnabledField(cmd)]

\* execute: return user!.<delegate>(widget). Calling a delegate of an
\* undefined user, or an undefined delegate, throws a TypeError.
ExecuteOutcome(cmd, ret) ==
    LET widget == currentWidget
        user == FindUser(widget)
    IN  IF user = <<>> \/ ~user[1][ExecField(cmd)]
        THEN [cmd |-> cmd, enabled |-> isEnabled(cmd), outcome |-> "TypeError",
              invoked |-> <<>>, result |-> "none"]
        ELSE [cmd |-> cmd, enabled |-> isEnabled(cmd), outcome |-> "returned",
              invoked |-> <<[user |-> user[1], field |-> ExecField(cmd),
                             arg |-> widget, returned |-> ret]>>,
              result |-> ret]

Execute(cmd) ==
    /\ \E ret \in DelegateReturns : lastExec' = ExecuteOutcome(cmd, ret)
    /\ UNCHANGED <<items, groups, users, currentWidget, calls>>

\* addUser with unshift in the place of push.
addUser_Prepend(user) ==
    /\ Len(users) < MaxUsers
    /\ users' = <<user>> \o users
    /\ lastExec' = NoExec
    /\ UNCHANGED <<items, groups, currentWidget, calls>>

\* KernelMenu.addUser
addUser(user) ==
    /\ Len(users) < MaxUsers
    /\ users' = Append(users, user)
    /\ lastExec' = NoExec
    /\ UNCHANGED <<items, groups, currentWidget, calls>>

\* The shell changes its current widget.
FocusChange(w) ==
    /\ w # currentWidget
    /\ currentWidget' = w
    /\ lastExec' = NoExec
    /\ UNCHANGED <<items, groups, users, calls>>

(***************************************************************************)
(* Specification of the KernelMenu's registry and commands.                *)
(***************************************************************************)
KernelInit ==
    /\ items = <<InterruptItem, RestartItem, ChangeItem>>
    /\ groups = <<>>
    /\ users = <<>>
    /\ currentWidget = "null"
    /\ lastExec = NoExec
    /\ calls = <<>>

KernelNext ==
    \/ \E user \in KernelUsers : addUser(user)
    \/ \E w \in Widgets \cup {"null"} : FocusChange(w)
    \/ \E cmd \in Commands : Execute(cmd)

KernelSpec == KernelInit /\ [][KernelNext]_vars

(***************************************************************************)
(* Specification of a KernelMenu with every operation: the inherited       *)
(* addGroup, addUser, and the commands.                                    *)
(***************************************************************************)
Contributions == Len(calls) + Len(users)

KernelMenuNext ==
    \/ \E n \in 0..MaxItems, rankArg \in RankArgs :
          Contributions < MaxContributions /\ AddGroup(n, rankArg)
    \/ \E user \in KernelUsers :
          Contributions < MaxContributions /\ addUser(user)
    \/ \E w \in Widgets \cup {"null"} : FocusChange(w)
    \/ \E cmd \in Commands : Execute(cmd)

KernelMenuSpec == KernelInit /\ [][KernelMenuNext]_vars

(***************************************************************************)
(* Vocabulary of the properties of addGroup.                               *)
(***************************************************************************)
CallIds == 1..Len(calls)

\* The rank the c-th call asked for.
CallRank(c) == IF calls[c].rankArg = <<>> THEN 100 ELSE calls[c].rankArg[1]

\* The positions of the flat list that hold items of the c-th call's group.
GroupPositions(c) ==
    {i \in 1..Len(items) : items[i].type = "command" /\ items[i].group = c}

NonEmptyCall(c) == calls[c].items # <<>>

\* Every position of group c lies before every position of group d.
AllBefore(c, d) == \A i \in GroupPositions(c), j \in GroupPositions(d) : i < j

\* Group c comes before group d in rank order, equal ranks in call order.
RankBefore(c, d) ==
    \/ CallRank(c) < CallRank(d)
    \/ CallRank(c) = CallRank(d) /\ c < d

\* The calls in ascending rank order, equal ranks in call order.
RankOrderAt(p) ==
    CHOOSE c \in CallIds : Cardinality({d \in CallIds : RankBefore(d, c)}) = p - 1

RankOrder == [p \in CallIds |-> RankOrderAt(p)]

\* The reference layout: the fixed items, then per group in rank order a
\* separator (unless it would be the first item of the menu) and the items.
RECURSIVE Layout(_, _)
Layout(p, acc) ==
    IF p > Len(calls)
    THEN acc
    ELSE Layout(p + 1,
                acc \o (IF acc = <<>> THEN <<>> ELSE <<Separator>>)
                    \o calls[RankOrder[p]].items)

ReferenceLayout == Layout(1, <<>>)

\* The flat list that results from making the calls of callSeq, in order,
\* on a menu with the flat list menuItems and the group list menuGroups.
RECURSIVE Replay(_, _, _, _)
Replay(callSeq, k, menuItems, menuGroups) ==
    IF k > Len(callSeq)
    THEN menuItems
    ELSE LET r == AddGroupResult(menuItems, menuGroups, callSeq[k].items,
                                 callSeq[k].rankArg)
         IN  Replay(callSeq, k + 1, r.items, r.groups)

IsNonEmptyCall(call) == call.items # <<>>
IsCommand(it) == it.type = "command"

\* The items of a flat list without its separators.
ItemsOnly(s) == SelectSeq(s, IsCommand)

(***************************************************************************)
(* C1: after any sequence of addGroup calls the flat item list equals the  *)
(* reference layout: per group in ascending rank order (equal ranks in     *)
(* call order) one separator, omitted only as the very first item of the   *)
(* menu, followed by the group's items in their given order.               *)
(***************************************************************************)
C1_FlatListIsReferenceLayout == items = ReferenceLayout

(***************************************************************************)
(* C2: every item of a group G appears before every item of a group H      *)
(* whenever rank(G) < rank(H).                                             *)
(***************************************************************************)
C2_RankOrdering ==
    \A c \in CallIds, d \in CallIds : CallRank(c) < CallRank(d) => AllBefore(c, d)

(***************************************************************************)
(* C3: of two groups of equal rank, every item of the one added first      *)
(* appears before every item of the one added later, with a separator      *)
(* between them.                                                           *)
(***************************************************************************)
C3_EqualRankStable ==
    \A c \in CallIds, d \in CallIds :
        (c < d /\ CallRank(c) = CallRank(d) /\ NonEmptyCall(c) /\ NonEmptyCall(d))
        => /\ AllBefore(c, d)
           /\ \E s \in 1..Len(items) :
                /\ items[s] = Separator
                /\ \A i \in GroupPositions(c) : i < s
                /\ \A j \in GroupPositions(d) : s < j

(***************************************************************************)
(* C4: every non-empty group's first item is immediately preceded by a     *)
(* separator, except for the group that is the first content of the menu.  *)
(***************************************************************************)
C4_SeparatorBeforeEachGroup ==
    \A c \in CallIds :
        NonEmptyCall(c) =>
            \A i \in 1..Len(items) :
                items[i] = calls[c].items[1] => (i = 1 \/ items[i - 1] = Separator)

(***************************************************************************)
(* C5: a group is never split: the items of each group occupy consecutive  *)
(* positions of the flat list.                                             *)
(***************************************************************************)
C5_GroupsContiguous ==
    \A c \in CallIds :
        \A i \in GroupPositions(c), j \in GroupPositions(c) :
            \A m \in i..j : m \in GroupPositions(c)

(***************************************************************************)
(* C6: the flat order of the items of the non-empty groups is the same as  *)
(* for the call sequence with every addGroup([], r) call deleted.          *)
(***************************************************************************)
C6_EmptyGroupsPreserveOrder ==
    ItemsOnly(items) = ItemsOnly(Replay(SelectSeq(calls, IsNonEmptyCall), 1, <<>>, <<>>))

(***************************************************************************)
(* C7: the first item of the flat list is never a separator, the last item *)
(* is never a separator, and no two separators are adjacent.               *)
(***************************************************************************)
C7_SeparatorsOnlyBetween ==
    /\ items # <<>> => items[1] # Separator /\ items[Len(items)] # Separator
    /\ \A i \in 1..(Len(items) - 1) : ~(items[i] = Separator /\ items[i + 1] = Separator)

\* The model replays its own history to the state it is in.
ReplayIsState == Replay(calls, 1, <<>>, <<>>) = items

(***************************************************************************)
(* Vocabulary of the properties of the kernel commands.                    *)
(***************************************************************************)
\* The registry positions of the users whose tracker owns the focused widget.
Owners == {i \in 1..Len(users) : currentWidget \in users[i].tracker}

\* The first of them in registration order.
FirstOwner == CHOOSE i \in Owners : \A j \in Owners : i <= j

\* The delegate that matches a command.
MatchingDelegate(cmd) ==
    CASE cmd = "kernel:interrupt" -> "interruptKernel"
      [] cmd = "kernel:restart" -> "restartKernel"
      [] cmd = "kernel:change" -> "changeKernel"

(***************************************************************************)
(* C8: each kernel command is enabled if and only if the first registered  *)
(* user, in registration order, whose tracker owns the focused widget also *)
(* supplies the matching delegate.                                         *)
(***************************************************************************)
C8_EnabledIffFirstOwnerSupplies ==
    \A cmd \in Commands :
        isEnabled(cmd) <=> (Owners # {} /\ users[FirstOwner][MatchingDelegate(cmd)])

\* U1 (owns wX, has restartKernel) and U2 (owns wY, no restartKernel) are
\* registered: restart is enabled for wX and disabled for wY.
C8_Witness ==
    /\ Len(users) = 2
    /\ users[1].tracker = {"wX"} /\ users[1].restartKernel
    /\ users[2].tracker = {"wY"} /\ ~users[2].restartKernel /\ users[2].interruptKernel
    /\ \/ currentWidget = "wX" /\ isEnabled("kernel:restart")
       \/ currentWidget = "wY" /\ ~isEnabled("kernel:restart")

(***************************************************************************)
(* C9: executing an enabled kernel command invokes exactly one delegate,   *)
(* the matching delegate of the first registered user whose tracker owns   *)
(* the focused widget, passes it the focused widget and returns what that  *)
(* delegate returns.                                                       *)
(***************************************************************************)
C9_ExecuteCallsFirstOwnersDelegate ==
    (lastExec.cmd # "none" /\ lastExec.enabled) =>
        /\ lastExec.outcome = "returned"
        /\ Len(lastExec.invoked) = 1
        /\ lastExec.invoked[1].user = users[FirstOwner]
        /\ lastExec.invoked[1].field = MatchingDelegate(lastExec.cmd)
        /\ lastExec.invoked[1].arg = currentWidget
        /\ lastExec.result = lastExec.invoked[1].returned

\* An enabled restart was executed while two different registered users
\* own the focused widget.
C9_Witness ==
    /\ lastExec.cmd = "kernel:restart" /\ lastExec.enabled
    /\ Cardinality(Owners) = 2
    /\ users[1] # users[2]
    /\ ~users[1].interruptKernel

(***************************************************************************)
(* C10: if there is no focused widget, or no registered user's tracker     *)
(* owns the focused widget, all three kernel commands are disabled.        *)
(***************************************************************************)
C10_DisabledWithoutOwner ==
    (currentWidget = "null" \/ Owners = {}) => \A cmd \in Commands : ~isEnabled(cmd)

\* A widget is focused that no registered user owns, although a user that
\* supplies every delegate is registered.
C10_Witness ==
    /\ currentWidget # "null"
    /\ Owners = {}
    /\ users # <<>>
    /\ users[1].interruptKernel /\ users[1].restartKernel /\ users[1].changeKernel
    /\ \A cmd \in Commands : ~isEnabled(cmd)

(***************************************************************************)
(* C11: in a KernelMenu the three seeded actions interrupt, restart,       *)
(* change remain the first three items of the flat list, in that order,    *)
(* after any sequence of addGroup calls, and every contributed group       *)
(* appears after them, separated from them by a separator.                 *)
(***************************************************************************)
C11_KernelItemsPrecedeGroups ==
    /\ Len(items) >= 3
    /\ SubSeq(items, 1, 3) = <<InterruptItem, RestartItem, ChangeItem>>
    /\ \A c \in CallIds : \A i \in GroupPositions(c) : i > 3
    /\ (\E c \in CallIds : NonEmptyCall(c)) => items[4] = Separator

(***************************************************************************)
(* C12: addGroup with the rank omitted behaves exactly like addGroup with  *)
(* rank 100: from the same state both produce the same group list and the  *)
(* same flat list, and the rank-less group sorts after every group of      *)
(* rank <= 100 and before every group of rank > 100.                       *)
(***************************************************************************)
\* Every group added without a rank is recorded with rank 100.
RankLessRecordedAs100 ==
    \A c \in CallIds :
        calls[c].rankArg = <<>> =>
            \E i \in 1..Len(groups) : groups[i] = [items |-> calls[c].items, rank |-> 100]

\* The group the last call added without a rank sits after the groups of
\* rank <= 100 and before the groups of rank > 100.
RankLessSortsAs100 ==
    (calls # <<>> /\ calls[Len(calls)].rankArg = <<>>) =>
        LET at == calls[Len(calls)].groupIndex + 1
        IN  /\ groups[at] = [items |-> calls[Len(calls)].items, rank |-> 100]
            /\ \A i \in 1..Len(groups) :
                 /\ i < at => groups[i].rank <= 100
                 /\ i > at => groups[i].rank > 100

C12_OmittedRankIs100 ==
    /\ RankLessRecordedAs100
    /\ RankLessSortsAs100
    /\ \A n \in 0..MaxItems :
         AddGroupResult(items, groups, ItemList(Len(calls) + 1, n), <<>>)
           = AddGroupResult(items, groups, ItemList(Len(calls) + 1, n), <<100>>)

\* A rank-less group was added between a group of rank 10 and one of rank
\* 200 that were there before it.
C12_Witness ==
    /\ Len(calls) = 3
    /\ calls[1].rankArg = <<200>> /\ calls[2].rankArg = <<10>> /\ calls[3].rankArg = <<>>
    /\ groups[1].rank = 10 /\ groups[2].rank = 100 /\ groups[3].rank = 200
    /\ groups[2].items = calls[3].items /\ calls[3].items # <<>>

(***************************************************************************)
(* C13: the insertion point addGroup computes equals startIndex plus, for  *)
(* every group preceding the new group in the sorted group list, that      *)
(* group's item count + 1.                                                 *)
(***************************************************************************)
RECURSIVE PrecedingWidth(_, _)
PrecedingWidth(grps, k) ==
    IF k = 0 THEN 0 ELSE PrecedingWidth(grps, k - 1) + Len(grps[k].items) + 1

\* groups is the group list right after the last call.
C13_InsertIndexCountsItems ==
    calls # <<>> =>
        LET last == calls[Len(calls)]
        IN  last.insertIndex = startIndex + PrecedingWidth(groups, last.groupIndex)

(***************************************************************************)
(* C14: the group list holds exactly one entry per addGroup call, sorted   *)
(* by non-decreasing rank, equal ranks in the order they were added (a new *)
(* group is inserted at the first position whose existing rank is strictly *)
(* greater than its own); existing entries are never removed or changed.   *)
(***************************************************************************)
\* The calls as groups, in ascending rank order, equal ranks in call order.
SortedCallGroups ==
    [p \in CallIds |-> LET c == RankOrderAt(p)
                        IN  [items |-> calls[c].items, rank |-> CallRank(c)]]

C14_GroupListSortedStable ==
    /\ Len(groups) = Len(calls)
    /\ groups = SortedCallGroups
    /\ \A i \in 1..(Len(groups) - 1) : groups[i].rank <= groups[i + 1].rank
    /\ calls # <<>> =>
         LET last == calls[Len(calls)]
             at == last.groupIndex + 1
         IN  /\ groups[at] = [items |-> last.items, rank |-> CallRank(Len(calls))]
             /\ \A i \in 1..Len(groups) :
                  /\ i < at => groups[i].rank <= groups[at].rank
                  /\ i > at => groups[i].rank > groups[at].rank

\* Three groups of equal rank and one of a lower rank added last.
C14_Witness ==
    /\ Len(calls) = 3
    /\ calls[1].rankArg = <<200>> /\ calls[2].rankArg = <<200>> /\ calls[3].rankArg = <<10>>
    /\ calls[1].items # calls[2].items
    /\ groups[1].items = calls[3].items
    /\ groups[2].items = calls[1].items
    /\ groups[3].items = calls[2].items

(***************************************************************************)
(* C15: a single addGroup call inserts a separator if and only if its      *)
(* computed insertion point is greater than zero, and at the end of the    *)
(* call the new group's items sit in consecutive positions in their given  *)
(* order, immediately after that separator when one was inserted.          *)
(***************************************************************************)
\* The flat list s with the sequence block inserted before position q.
WithBlockAt(s, q, block) == SubSeq(s, 1, q - 1) \o block \o SubSeq(s, q, Len(s))

AddGroupStepInsertsBlock ==
    calls' # calls =>
        LET last == calls'[Len(calls')]
            block == IF last.insertIndex > 0
                     THEN <<Separator>> \o last.items
                     ELSE last.items
        IN  \E q \in 1..(Len(items) + 1) : items' = WithBlockAt(items, q, block)

C15_SeparatorIffPositiveIndex == [][AddGroupStepInsertsBlock]_vars

\* The second group was added with a computed insertion point beyond the
\* end of the menu and sits at the end, after its separator.
C15_Witness ==
    /\ Len(calls) = 2
    /\ calls[2].items # <<>>
    /\ calls[2].insertIndex > Len(calls[1].items)
    /\ items = calls[1].items \o <<Separator>> \o calls[2].items

(***************************************************************************)
(* C16: addUser appends to the registry without de-duplication (one entry  *)
(* per call, in call order), and the lookup always selects the earliest-   *)
(* registered user whose tracker owns the focused widget.                  *)
(***************************************************************************)
\* A step of addUser: the only operation that resets lastExec and changes
\* neither the current widget nor the addGroup history.
IsAddUserStep ==
    lastExec' = NoExec /\ currentWidget' = currentWidget /\ calls' = calls

LookupSelectsEarliest ==
    FindUser(currentWidget) = IF Owners = {} THEN <<>> ELSE <<users[FirstOwner]>>

AddUserStepAppends ==
    /\ IsAddUserStep => \E u \in KernelUsers : users' = Append(users, u)
    /\ ~IsAddUserStep => users' = users
    /\ LookupSelectsEarliest
    /\ LookupSelectsEarliest'

C16_AppendAndFirstMatch == [][AddUserStepAppends]_vars

\* Two different users that both own the focused widget are registered,
\* and the lookup returns the one registered first.
C16_Witness ==
    /\ Len(users) = 2
    /\ users[1] # users[2]
    /\ Cardinality(Owners) = 2
    /\ FindUser(currentWidget) = <<users[1]>>

\* The same user is registered twice.
C16_DuplicateRegistered == Len(users) = 2 /\ users[1] = users[2]

(***************************************************************************)
(* C17: a kernel command is enabled if and only if some registered user's  *)
(* tracker claims the focused widget and that user supplies the delegate,  *)
(* also when an earlier-registered user claims the widget without          *)
(* supplying the delegate.                                                 *)
(***************************************************************************)
C17_EnabledIffSomeOwnerSupplies ==
    \A cmd \in Commands :
        isEnabled(cmd) <=> \E i \in Owners : users[i][MatchingDelegate(cmd)]

\* C17 as amended: the user that claims the widget and supplies the delegate
\* must be the earliest-registered user that claims the widget.
C17_EnabledIffEarliestClaimantSupplies ==
    \A cmd \in Commands :
        isEnabled(cmd) <=>
            \E i \in 1..Len(users) :
                /\ currentWidget \in users[i].tracker
                /\ users[i][MatchingDelegate(cmd)]
                /\ \A j \in 1..(i - 1) : currentWidget \notin users[j].tracker

\* Two users claim the focused widget; only the later one supplies
\* restartKernel, and restart is disabled.
C17_Witness ==
    /\ Cardinality(Owners) = 2
    /\ ~users[1].restartKernel /\ users[2].restartKernel
    /\ ~isEnabled("kernel:restart")

(***************************************************************************)
(* C18: executing a kernel command that has no matching delegate is a      *)
(* silent no-op: it raises no error and invokes no delegate.               *)
(***************************************************************************)
HasMatchingDelegate(cmd) ==
    Owners # {} /\ users[FirstOwner][MatchingDelegate(cmd)]

C18_NoMatchIsSilentNoOp ==
    (lastExec.cmd # "none" /\ ~HasMatchingDelegate(lastExec.cmd)) =>
        /\ lastExec.outcome # "TypeError"
        /\ lastExec.invoked = <<>>

(***************************************************************************)
(* C19: the items of each added group appear in the flat list in the       *)
(* relative order in which they were passed to addGroup, whatever calls    *)
(* followed.                                                               *)
(***************************************************************************)
\* The items of the flat list that belong to the c-th call's group, in the
\* order of the flat list.
GroupItemsInMenu(c) ==
    SelectSeq(items, LAMBDA it : it.type = "command" /\ it.group = c)

C19_GroupItemsKeepOrder ==
    \A c \in CallIds : GroupItemsInMenu(c) = calls[c].items

\* A group of four items was split by a later call and keeps its order.
C19_Witness ==
    /\ Len(calls) >= 2
    /\ Len(calls[1].items) = 4
    /\ \E i \in GroupPositions(1), j \in GroupPositions(1) :
         \E m \in i..j : m \notin GroupPositions(1)

(***************************************************************************)
(* C20: addGroup only ever inserts: every item present before the call is  *)
(* present after it, in the same relative order, the list grows by         *)
(* len(items) or len(items) + 1, and the user registry is unchanged;       *)
(* addUser and the commands leave the flat list and the group list         *)
(* unchanged.                                                              *)
(***************************************************************************)
\* a is b with some elements left out.
RECURSIVE IsSubsequence(_, _)
IsSubsequence(a, b) ==
    IF a = <<>> THEN TRUE
    ELSE IF b = <<>> THEN FALSE
    ELSE IF Head(a) = Head(b)
         THEN IsSubsequence(Tail(a), Tail(b))
         ELSE IsSubsequence(a, Tail(b))

FrameOfStep ==
    /\ calls' # calls =>
         LET n == Len(calls'[Len(calls')].items)
         IN  /\ IsSubsequence(items, items')
             /\ Len(items') - Len(items) \in {n, n + 1}
             /\ Len(groups') = Len(groups) + 1
             /\ users' = users
    /\ calls' = calls => items' = items /\ groups' = groups

C20_InsertOnlyAndFrames == [][FrameOfStep]_vars

\* A group was added to the kernel menu, a user was registered and a
\* command was executed.
C20_Witness ==
    /\ Len(calls) = 1 /\ Len(users) = 1
    /\ Len(calls[1].items) = 2
    /\ Len(items) = 5
    /\ lastExec.cmd # "none"

====
